---- MODULE Spec2Model ----
(***************************************************************************)
(* Model of src/native/ffreader/src/FrameUtils.hpp: the key formatter      *)
(* formatKey, the FrameInfo descriptor and the FrameInfoList cache         *)
(* (addFrame / getFrame).                                                  *)
(*                                                                         *)
(* A std::string is a sequence of one-character strings.  A float is a     *)
(* record [kind, neg, m, k]: kind "fin" is the dyadic rational             *)
(* (-1)^neg * m / 2^k, kinds "inf" and "nan" are the two non-finite        *)
(* classes.  A std::shared_ptr<FrameInfo> is a pointer into Heap.          *)
(***************************************************************************)
EXTENDS Integers, Sequences, FiniteSets, TLC

(***************************************************************************)
(* Bounds of the exploration and the program's constant.                   *)
(***************************************************************************)
\* const size_t maxSize = 32
maxSize == 32

\* Distinct frame numbers the decoder produces (frames 1..NumKeys of a file).
NumKeys == 34

\* Random-access (seek) calls after sequential playback.
MaxSeeks == 2

\* Calls each worker thread makes.
MaxThreadCalls == 1

\* Largest mantissa and number of fractional bits of the floats formatted.
MaxMant == 9

MaxFracBits == 2

(***************************************************************************)
(* State.                                                                  *)
(*   frameList  the cache, most recently inserted first                    *)
(*   log        every call begun so far, in order: [op, frame, key]        *)
(*   ret        the value the last getFrame returned                       *)
(*   prev       the cache as it was when the last sequential call began    *)
(*   serial     the calls of log executed one after the other              *)
(*   next       the next frame number sequential playback decodes          *)
(*   seeks      random-access calls made so far                            *)
(*   lock       the thread holding the caller's mutex, or Free             *)
(*   pc, targ   each worker thread's position and the call it is in        *)
(*   tcalls     calls each worker thread has begun                         *)
(*   fmt        inputs and outputs of the key formatter under test         *)
(*   fault      a call has dereferenced a null pointer                     *)
(*   payload    the contents of every pixel buffer                         *)
(*   job        the last interpolation or sharpening request and result    *)
(***************************************************************************)
VARIABLES frameList, log, ret, prev, serial, next, seeks, lock, pc, targ,
          tcalls, fmt, fault, payload, job

vars == <<frameList, log, ret, prev, serial, next, seeks, lock, pc, targ,
          tcalls, fmt, fault, payload, job>>

(***************************************************************************)
(* std::ostream << std::fixed << std::setprecision(6) << float             *)
(***************************************************************************)
DigitChars == <<"0", "1", "2", "3", "4", "5", "6", "7", "8", "9">>

Million == 1000000

RECURSIVE Pow2(_)
Pow2(k) == IF k = 0 THEN 1 ELSE 2 * Pow2(k - 1)

\* Decimal digits of a natural number, most significant first ("0" for 0).
RECURSIVE Digits(_)
Digits(n) ==
    IF n < 10 THEN <<DigitChars[n + 1]>>
    ELSE Digits(n \div 10) \o <<DigitChars[(n % 10) + 1]>>

\* Exactly `width` digits of n, zero padded on the left.
RECURSIVE PadDigits(_, _)
PadDigits(n, width) ==
    IF width = 0 THEN <<>>
    ELSE PadDigits(n \div 10, width - 1) \o <<DigitChars[(n % 10) + 1]>>

\* num / den rounded to an integer, ties to even (the conversion rounds the
\* exact binary value in the current rounding mode, round-to-nearest-even).
RoundHalfEven(num, den) ==
    LET q == num \div den
        r == num % den
    IN  IF 2 * r > den \/ (2 * r = den /\ q % 2 = 1) THEN q + 1 ELSE q

\* The float x printed in fixed notation with 6 decimals.
FormatFixed6(x) ==
    LET sign == IF x.neg THEN <<"-">> ELSE <<>>
    IN  CASE x.kind = "inf" -> sign \o <<"i", "n", "f">>
          [] x.kind = "nan" -> sign \o <<"n", "a", "n">>
          [] OTHER ->
               LET scaled == RoundHalfEven(x.m * Million, Pow2(x.k))
               IN  sign \o Digits(scaled \div Million) \o <<".">>
                        \o PadDigits(scaled % Million, 6)

\* Mutant of formatKey: the zoom suffix is never appended.
formatKeyNoZoom(file, frameNum, hasZoom) ==
    file \o <<"-">> \o FormatFixed6(frameNum)

\* Mutant of formatKey: the zoom suffix is written before the frame number.
formatKeyZoomFirst(file, frameNum, hasZoom) ==
    LET zStr == IF hasZoom THEN <<"-", "z">> ELSE <<>>
    IN  file \o zStr \o <<"-">> \o FormatFixed6(frameNum)

\* inline std::string formatKey(const std::string &file, float frameNum,
\*                              bool hasZoom)
formatKey(file, frameNum, hasZoom) ==
    LET zStr == IF hasZoom THEN <<"-", "z">> ELSE <<>>
    IN  file \o <<"-">> \o FormatFixed6(frameNum) \o zStr

(***************************************************************************)
(* FrameInfo                                                               *)
(***************************************************************************)
\* Conversion int -> float of a small integer (exact below 2^24).
IntToFloat(n) ==
    [kind |-> "fin", neg |-> n < 0, m |-> IF n < 0 THEN -n ELSE n, k |-> 0]

\* FrameInfo(int frameNum, const std::string &file)
\*     : frameNum(frameNum), file(file) { key = formatKey(file, frameNum, false); }
FrameInfo(frameNum, file) ==
    [frameNum |-> IntToFloat(frameNum),
     file     |-> file,
     key      |-> formatKey(file, IntToFloat(frameNum), FALSE)]

\* The file every frame of the session comes from.
VideoFile == <<"v">>

\* Frame numbers decoded a second time (a second descriptor, same key).
Redecoded == <<1, maxSize \div 2, maxSize>>

NumFrames == NumKeys + Len(Redecoded)

\* The null std::shared_ptr and the descriptors the caller constructs.
NullPtr == 0

FramePtrs == 1..NumFrames

FrameNumOf(p) == IF p <= NumKeys THEN p ELSE Redecoded[p - NumKeys]

\* The FrameInfo object each pointer refers to.
Heap == [p \in FramePtrs |-> FrameInfo(FrameNumOf(p), VideoFile)]

\* Interpolation allocates its results behind the decoded descriptors: the
\* k-th object of the last request is pointer NumFrames + k, described by
\* job.frames[k].
\* f->key
KeyOf(p) ==
    IF p <= NumFrames THEN Heap[p].key ELSE job.frames[p - NumFrames].key

(***************************************************************************)
(* FrameInfoList: std::list<std::shared_ptr<FrameInfo>> frameList, front   *)
(* at index 1.  An iterator is an index, end() is Len + 1.                 *)
(***************************************************************************)
ListEnd(list) == Len(list) + 1

\* Mutant of FindIf: the search stops one element short of end().
FindIfSkipsBack(list, key) ==
    IF \E i \in 1..(Len(list) - 1) : KeyOf(list[i]) = key
    THEN CHOOSE i \in 1..(Len(list) - 1) :
             /\ KeyOf(list[i]) = key
             /\ \A j \in 1..(i - 1) : KeyOf(list[j]) /= key
    ELSE ListEnd(list)

\* std::find_if(begin, end, [&](f) { return f->key == key; })
FindIf(list, key) ==
    IF \E i \in 1..Len(list) : KeyOf(list[i]) = key
    THEN CHOOSE i \in 1..Len(list) :
             /\ KeyOf(list[i]) = key
             /\ \A j \in 1..(i - 1) : KeyOf(list[j]) /= key
    ELSE ListEnd(list)

\* frameList.erase(it)
Erase(list, it) == SubSeq(list, 1, it - 1) \o SubSeq(list, it + 1, Len(list))

\* frameList.pop_back()
PopBack(list) == SubSeq(list, 1, Len(list) - 1)

\* Mutant of PushFront: push_back instead of push_front.
PushBack(list, frame) == list \o <<frame>>

\* frameList.push_front(frame)
PushFront(list, frame) == <<frame>> \o list

\* Mutant of SearchRemove: the capacity test is > instead of >=.
SearchRemoveOffByOne(list, frame) ==
    LET it == FindIf(list, KeyOf(frame))
    IN  IF it /= ListEnd(list) THEN Erase(list, it)
        ELSE IF Len(list) > maxSize THEN PopBack(list)
        ELSE list

\* Mutant of SearchRemove: the capacity test comes before the key test.
SearchRemoveSizeFirst(list, frame) ==
    LET it == FindIf(list, KeyOf(frame))
    IN  IF Len(list) >= maxSize THEN PopBack(list)
        ELSE IF it /= ListEnd(list) THEN Erase(list, it)
        ELSE list

\* The first half of addFrame: search, then erase the hit or, at capacity,
\* pop the back.
SearchRemove(list, frame) ==
    LET it == FindIf(list, KeyOf(frame))
    IN  IF it /= ListEnd(list) THEN Erase(list, it)
        ELSE IF Len(list) >= maxSize THEN PopBack(list)
        ELSE list

\* Mutant of addFrame: a cached key keeps its stored descriptor, which moves
\* to the front in place of the one passed.
addFrameKeepOld(list, frame) ==
    LET it == FindIf(list, KeyOf(frame))
    IN  IF it /= ListEnd(list)
        THEN PushFront(Erase(list, it), list[it])
        ELSE PushFront(SearchRemove(list, frame), frame)

\* void addFrame(const std::shared_ptr<FrameInfo> &frame)
addFrame(list, frame) == PushFront(SearchRemove(list, frame), frame)

\* Mutant of getFrame: a hit moves the entry to the front (LRU touch).
getFrameTouch(list, key) ==
    LET it == FindIf(list, key)
    IN  [ret  |-> IF it /= ListEnd(list) THEN list[it] ELSE NullPtr,
         list |-> IF it /= ListEnd(list)
                  THEN <<list[it]>> \o Erase(list, it) ELSE list]

\* Mutant of getFrame: a hit takes the entry out of the list.
getFrameTake(list, key) ==
    LET it == FindIf(list, key)
    IN  [ret  |-> IF it /= ListEnd(list) THEN list[it] ELSE NullPtr,
         list |-> IF it /= ListEnd(list) THEN Erase(list, it) ELSE list]

\* Mutant of getFrame: a hit returns *begin() instead of *it.
getFrameDerefBegin(list, key) ==
    LET it == FindIf(list, key)
    IN  [ret  |-> IF it /= ListEnd(list) THEN list[1] ELSE NullPtr,
         list |-> list]

\* std::shared_ptr<FrameInfo> getFrame(const std::string &key): the value
\* returned and the list the call leaves behind.
getFrame(list, key) ==
    LET it == FindIf(list, key)
    IN  [ret  |-> IF it /= ListEnd(list) THEN list[it] ELSE NullPtr,
         list |-> list]

Threads == {"t1", "t2"}

Free == "free"

AddCall(p) == [op |-> "addFrame", frame |-> p, key |-> KeyOf(p)]

GetCall(k) == [op |-> "getFrame", frame |-> NullPtr, key |-> k]

NoCall == [op |-> "none", frame |-> NullPtr, key |-> <<>>]

NoFmt == [file |-> <<>>, num |-> IntToFloat(0), plain |-> <<>>, zoom |-> <<>>,
          done |-> FALSE]

\* The pixel buffers as decoded: descriptor p owns buffer p, which holds the
\* pixels of frame number FrameNumOf(p).
Decoded == [b \in FramePtrs |-> <<"frame", FrameNumOf(b)>>]

\* No interpolation or sharpening has been requested.
NoJob == [op |-> "none"]

\* A worker thread's call in progress: the call, whether its search/remove
\* step and another thread's ran before either push_front (raced), and the
\* list size the later of those search/remove steps left (sawLen).
InCall(c) == [call |-> c, raced |-> FALSE, sawLen |-> 0]

Idle == InCall(NoCall)

\* Frames and keys the caller asks for when it seeks: both ends and the
\* middle of the window, frames past it, and the re-decoded descriptors.
SeekFrames ==
    {1, 2, maxSize \div 2, maxSize - 1, maxSize, maxSize + 1, NumKeys}
        \cup (NumKeys + 1)..NumFrames

\* The key of a frame that is never decoded.
AbsentKey == formatKey(VideoFile, IntToFloat(0), FALSE)

SeekKeys == {KeyOf(p) : p \in SeekFrames} \cup {AbsentKey}

\* FrameInfoList(): the list starts empty.
Init ==
    /\ frameList = <<>>
    /\ log = <<>>
    /\ ret = NullPtr
    /\ prev = <<>>
    /\ serial = <<>>
    /\ next = 1
    /\ seeks = 0
    /\ lock = Free
    /\ pc = [t \in Threads |-> "idle"]
    /\ targ = [t \in Threads |-> Idle]
    /\ tcalls = [t \in Threads |-> 0]
    /\ fmt = NoFmt
    /\ fault = FALSE
    /\ payload = Decoded
    /\ job = NoJob

WorkersIdle == \A t \in Threads : pc[t] = "idle" /\ tcalls[t] = 0

\* One complete addFrame(frame) call of the single-threaded caller.
AddFrameCall(p) ==
    /\ frameList' = addFrame(frameList, p)
    /\ log' = Append(log, AddCall(p))
    /\ prev' = frameList
    /\ serial' = frameList'
    /\ UNCHANGED <<ret, lock, pc, targ, tcalls, fmt, fault,
                   payload, job>>

\* One complete getFrame(key) call of the single-threaded caller.
GetFrameCall(k) ==
    /\ frameList' = getFrame(frameList, k).list
    /\ ret' = getFrame(frameList, k).ret
    /\ log' = Append(log, GetCall(k))
    /\ prev' = frameList
    /\ serial' = frameList'
    /\ UNCHANGED <<lock, pc, targ, tcalls, fmt, fault,
                   payload, job>>

\* Sequential playback: the next decoded frame is inserted.
PlayAddFrame ==
    /\ seeks = 0
    /\ WorkersIdle
    /\ next <= NumKeys
    /\ AddFrameCall(next)
    /\ next' = next + 1
    /\ UNCHANGED seeks

\* Random access: any of the seek frames is inserted.
SeekAddFrame ==
    /\ seeks < MaxSeeks
    /\ \E p \in SeekFrames : AddFrameCall(p)
    /\ seeks' = seeks + 1
    /\ UNCHANGED next

\* Random access: any of the seek keys is looked up.
SeekGetFrame ==
    /\ seeks < MaxSeeks
    /\ \E k \in SeekKeys : GetFrameCall(k)
    /\ seeks' = seeks + 1
    /\ UNCHANGED next

Next == PlayAddFrame \/ SeekAddFrame \/ SeekGetFrame

Spec == Init /\ [][Next]_vars

(***************************************************************************)
(* Worker threads sharing one FrameInfoList.  A call is split where        *)
(* another thread can run: search/remove (find_if, erase or pop_back),     *)
(* then push_front.                                                        *)
(***************************************************************************)
\* Frames and keys the worker threads ask for.
WorkerFrames == {1, maxSize, maxSize + 1, NumKeys + 1}

WorkerKeys == {KeyOf(1), KeyOf(maxSize + 1)}

\* find_if and erase / pop_back of thread t's addFrame.
SearchRemoveStep(t) ==
    /\ pc[t] = "search"
    /\ frameList' = SearchRemove(frameList, targ[t].call.frame)
    /\ pc' = [pc EXCEPT ![t] = "push"]
    /\ targ' = [u \in Threads |->
                  IF u = t
                  THEN [targ[t] EXCEPT
                           !.raced = \E v \in Threads \ {t} : pc[v] = "push",
                           !.sawLen = Len(frameList')]
                  ELSE IF pc[u] = "push"
                  THEN [targ[u] EXCEPT !.raced = TRUE,
                                       !.sawLen = Len(frameList')]
                  ELSE targ[u]]
    /\ UNCHANGED <<log, ret, prev, serial, next, seeks, lock, tcalls, fmt, fault,
                   payload, job>>

\* push_front of thread t's addFrame, and the return.
PushFrontStep(t) ==
    /\ pc[t] = "push"
    /\ frameList' = PushFront(frameList, targ[t].call.frame)
    /\ pc' = [pc EXCEPT ![t] = "exit"]
    /\ UNCHANGED <<log, ret, prev, serial, next, seeks, lock, targ, tcalls, fmt, fault,
                   payload, job>>

\* Thread t's getFrame, a single search.
FindStep(t) ==
    /\ pc[t] = "find"
    /\ frameList' = getFrame(frameList, targ[t].call.key).list
    /\ ret' = getFrame(frameList, targ[t].call.key).ret
    /\ pc' = [pc EXCEPT ![t] = "exit"]
    /\ UNCHANGED <<log, prev, serial, next, seeks, lock, targ, tcalls, fmt, fault,
                   payload, job>>

\* Thread t takes the caller's mutex and calls addFrame(p).
LockAddFrame(t) ==
    /\ lock = Free
    /\ pc[t] = "idle"
    /\ tcalls[t] < MaxThreadCalls
    /\ \E p \in WorkerFrames :
           /\ targ' = [targ EXCEPT ![t] = InCall(AddCall(p))]
           /\ log' = Append(log, AddCall(p))
           /\ serial' = addFrame(serial, p)
    /\ lock' = t
    /\ pc' = [pc EXCEPT ![t] = "search"]
    /\ tcalls' = [tcalls EXCEPT ![t] = @ + 1]
    /\ UNCHANGED <<frameList, ret, prev, next, seeks, fmt, fault,
                   payload, job>>

\* Thread t takes the caller's mutex and calls getFrame(k).
LockGetFrame(t) ==
    /\ lock = Free
    /\ pc[t] = "idle"
    /\ tcalls[t] < MaxThreadCalls
    /\ \E k \in WorkerKeys :
           /\ targ' = [targ EXCEPT ![t] = InCall(GetCall(k))]
           /\ log' = Append(log, GetCall(k))
           /\ serial' = getFrame(serial, k).list
    /\ lock' = t
    /\ pc' = [pc EXCEPT ![t] = "find"]
    /\ tcalls' = [tcalls EXCEPT ![t] = @ + 1]
    /\ UNCHANGED <<frameList, ret, prev, next, seeks, fmt, fault,
                   payload, job>>

\* Thread t's call has returned; it releases the mutex.
Unlock(t) ==
    /\ pc[t] = "exit"
    /\ lock = t
    /\ lock' = Free
    /\ pc' = [pc EXCEPT ![t] = "idle"]
    /\ UNCHANGED <<frameList, log, ret, prev, serial, next, seeks, targ, tcalls,
                   fmt, fault,
                   payload, job>>

NextLock ==
    \/ PlayAddFrame
    \/ \E t \in Threads :
           \/ LockAddFrame(t)
           \/ LockGetFrame(t)
           \/ SearchRemoveStep(t)
           \/ PushFrontStep(t)
           \/ FindStep(t)
           \/ Unlock(t)

SpecLock == Init /\ [][NextLock]_vars

\* Thread t calls addFrame(p) with no lock taken.
EnterAddFrame(t) ==
    /\ pc[t] = "idle"
    /\ tcalls[t] < MaxThreadCalls
    /\ \E p \in WorkerFrames :
           /\ targ' = [targ EXCEPT ![t] = InCall(AddCall(p))]
           /\ log' = Append(log, AddCall(p))
           /\ serial' = addFrame(serial, p)
    /\ pc' = [pc EXCEPT ![t] = "search"]
    /\ tcalls' = [tcalls EXCEPT ![t] = @ + 1]
    /\ UNCHANGED <<frameList, ret, prev, next, seeks, lock, fmt, fault,
                   payload, job>>

\* Thread t's unlocked call has returned.
Return(t) ==
    /\ pc[t] = "exit"
    /\ pc' = [pc EXCEPT ![t] = "idle"]
    /\ UNCHANGED <<frameList, log, ret, prev, serial, next, seeks, lock, targ,
                   tcalls, fmt, fault,
                   payload, job>>

NextRace ==
    \/ PlayAddFrame
    \/ \E t \in Threads :
           \/ EnterAddFrame(t)
           \/ SearchRemoveStep(t)
           \/ PushFrontStep(t)
           \/ Return(t)

SpecRace == Init /\ [][NextRace]_vars

(***************************************************************************)
(* The key formatter on its own: the inputs are drawn at the start, one    *)
(* step formats them without and with the zoom suffix.                     *)
(***************************************************************************)
FileStrings ==
    {<<>>, <<"v">>, <<"v", "-">>, <<"v", "-", "z">>, <<"-", "z">>,
     <<"v", "-", "1">>, <<"1", ".", "5">>}

FrameNums ==
    [kind : {"fin"}, neg : BOOLEAN, m : 0..MaxMant, k : 0..MaxFracBits]
        \cup [kind : {"inf", "nan"}, neg : BOOLEAN, m : {0}, k : {0}]

InitKey ==
    /\ frameList = <<>>
    /\ log = <<>>
    /\ ret = NullPtr
    /\ prev = <<>>
    /\ serial = <<>>
    /\ next = 1
    /\ seeks = 0
    /\ lock = Free
    /\ pc = [t \in Threads |-> "idle"]
    /\ targ = [t \in Threads |-> Idle]
    /\ tcalls = [t \in Threads |-> 0]
    /\ fault = FALSE
    /\ payload = Decoded
    /\ job = NoJob
    /\ \E f \in FileStrings, n \in FrameNums :
           fmt = [NoFmt EXCEPT !.file = f, !.num = n]

FormatKeys ==
    /\ ~fmt.done
    /\ fmt' = [fmt EXCEPT !.plain = formatKey(fmt.file, fmt.num, FALSE),
                          !.zoom = formatKey(fmt.file, fmt.num, TRUE),
                          !.done = TRUE]
    /\ UNCHANGED <<frameList, log, ret, prev, serial, next, seeks, lock, pc,
                   targ, tcalls, fault, payload, job>>

NextKey == FormatKeys

SpecKey == InitKey /\ [][NextKey]_vars

\* Everything but fmt as it is before any call.
Fresh ==
    /\ frameList = <<>>
    /\ log = <<>>
    /\ ret = NullPtr
    /\ prev = <<>>
    /\ serial = <<>>
    /\ next = 1
    /\ seeks = 0
    /\ lock = Free
    /\ pc = [t \in Threads |-> "idle"]
    /\ targ = [t \in Threads |-> Idle]
    /\ tcalls = [t \in Threads |-> 0]
    /\ fault = FALSE
    /\ payload = Decoded
    /\ job = NoJob

cacheVars == <<frameList, log, ret, prev, serial, next, seeks, lock, pc, targ,
               tcalls>>

(***************************************************************************)
(* The key formatter on two argument triples.                              *)
(***************************************************************************)
PairFiles == {<<"v">>, <<"v", "-">>, <<"v", "-", "z">>}

PairNums == {n \in FrameNums : n.m <= 1}

KeyArgs == [file : PairFiles, num : PairNums, zoom : BOOLEAN]

InitPair ==
    /\ Fresh
    /\ \E a \in KeyArgs, b \in KeyArgs :
           fmt = [a |-> a, b |-> b, keyA |-> <<>>, keyB |-> <<>>,
                  done |-> FALSE]

FormatPair ==
    /\ ~fmt.done
    /\ fmt' = [fmt EXCEPT
                  !.keyA = formatKey(fmt.a.file, fmt.a.num, fmt.a.zoom),
                  !.keyB = formatKey(fmt.b.file, fmt.b.num, fmt.b.zoom),
                  !.done = TRUE]
    /\ UNCHANGED <<cacheVars, fault, payload, job>>

NextPair == FormatPair

SpecPair == InitPair /\ [][NextPair]_vars

\* Two floats are the same number once rounded to 6 decimals.
Agree6(x, y) ==
    /\ x.kind = y.kind
    /\ x.kind = "inf" => x.neg = y.neg
    /\ x.kind = "fin" =>
           LET sx == RoundHalfEven(x.m * Million, Pow2(x.k))
               sy == RoundHalfEven(y.m * Million, Pow2(y.k))
           IN  sx = sy /\ (sx /= 0 => x.neg = y.neg)

(***************************************************************************)
(* Construction of a descriptor for a frame the caller describes by its    *)
(* file, its (possibly fractional) frame number and whether zoom applies.  *)
(***************************************************************************)
\* Conversion float -> int of a finite float: the fraction is discarded.
FloatToInt(x) ==
    LET q == x.m \div Pow2(x.k)
    IN  IF x.neg THEN 0 - q ELSE q

DescFiles == {<<"v">>, <<"v", "-", "z">>}

\* Finite frame numbers (the conversion to int is defined for them).
DescNums == {n \in FrameNums : n.kind = "fin"}

NoDesc == [frameNum |-> IntToFloat(0), file |-> <<>>, key |-> <<>>]

InitDesc ==
    /\ Fresh
    /\ \E f \in DescFiles, n \in DescNums, z \in BOOLEAN :
           fmt = [req |-> [file |-> f, num |-> n, zoom |-> z],
                  desc |-> NoDesc, made |-> FALSE, assigned |-> FALSE]

\* std::make_shared<FrameInfo>(num, file): the float argument converts to
\* the constructor's int parameter; the constructor takes no zoom flag.
ConstructFrameInfo ==
    /\ ~fmt.made
    /\ fmt' = [fmt EXCEPT
                  !.desc = FrameInfo(FloatToInt(fmt.req.num), fmt.req.file),
                  !.made = TRUE]
    /\ UNCHANGED <<cacheVars, fault, payload, job>>

\* frame->frameNum = num: the public field takes the fractional number the
\* constructor could not; key is a separate field and keeps its value.
AssignFrameNum ==
    /\ fmt.made
    /\ ~fmt.assigned
    /\ fmt' = [fmt EXCEPT !.desc.frameNum = fmt.req.num, !.assigned = TRUE]
    /\ UNCHANGED <<cacheVars, fault, payload, job>>

NextDesc == ConstructFrameInfo \/ AssignFrameNum

SpecDesc == InitDesc /\ [][NextDesc]_vars

(***************************************************************************)
(* The cache when the caller may pass a null shared_ptr.  Reading ->key    *)
(* through a null pointer ends the program (fault).                        *)
(***************************************************************************)
\* Calls made to the cache.
MaxCalls == 3

NullableFrames == {NullPtr, 1, 2, NumKeys + 1}

NullableKeys == {KeyOf(1), KeyOf(2), AbsentKey}

\* find_if evaluates f->key for a null entry f before it meets key.
DerefsNull(list, key) ==
    \E i \in 1..Len(list) :
        /\ list[i] = NullPtr
        /\ \A j \in 1..(i - 1) : list[j] /= NullPtr /\ KeyOf(list[j]) /= key

\* addFrame(frame), frame possibly null.  With a null frame the predicate
\* reads frame->key for the first entry it visits; over an empty list it is
\* never called, size() is 0 and the null pointer is pushed.
NullableAddFrame ==
    /\ ~fault
    /\ seeks < MaxCalls
    /\ \E p \in NullableFrames :
           LET faulty == IF p = NullPtr THEN frameList /= <<>>
                         ELSE DerefsNull(frameList, KeyOf(p))
           IN  /\ log' = Append(log, [op |-> "addFrame", frame |-> p,
                                      key |-> IF p = NullPtr THEN <<>>
                                              ELSE KeyOf(p)])
               /\ fault' = faulty
               /\ frameList' = IF faulty THEN frameList
                                ELSE IF p = NullPtr THEN PushFront(frameList, p)
                                ELSE addFrame(frameList, p)
    /\ prev' = frameList
    /\ serial' = frameList'
    /\ seeks' = seeks + 1
    /\ UNCHANGED <<ret, next, lock, pc, targ, tcalls, fmt, payload, job>>

\* getFrame(key) on a list that may hold a null entry.
NullableGetFrame ==
    /\ ~fault
    /\ seeks < MaxCalls
    /\ \E k \in NullableKeys :
           LET faulty == DerefsNull(frameList, k)
           IN  /\ log' = Append(log, GetCall(k))
               /\ fault' = faulty
               /\ frameList' = IF faulty THEN frameList
                                ELSE getFrame(frameList, k).list
               /\ ret' = IF faulty THEN ret ELSE getFrame(frameList, k).ret
    /\ prev' = frameList
    /\ serial' = frameList'
    /\ seeks' = seeks + 1
    /\ UNCHANGED <<next, lock, pc, targ, tcalls, fmt, payload, job>>

NextNull == NullableAddFrame \/ NullableGetFrame

SpecNull == Init /\ [][NextNull]_vars

(***************************************************************************)
(* void sharpenFrame(const std::shared_ptr<FrameInfo> frameA): the source  *)
(* gives the declaration only.  The body follows the design document:      *)
(* the convolution is applied in place to the descriptor's pixel payload.  *)
(* The function returns nothing, so its effect is on the object frameA     *)
(* points to, the same object the cache and getFrame hand out.             *)
(***************************************************************************)
\* The pixels of a buffer after the sharpening convolution.
Sharpened(buf) == <<"sharpened", buf>>

sharpenFrame(buffers, frameA) ==
    [buffers EXCEPT ![frameA] = Sharpened(buffers[frameA])]

\* Descriptors the caller decodes, and the keys it looks up.
SharpFrames == {1, 2, NumKeys + 1}

SharpKeys == {KeyOf(1), KeyOf(2)}

\* Descriptors the caller holds: those it decoded and the last getFrame
\* result.
Held == SharpFrames \cup ({ret} \ {NullPtr})

SharpAddFrame ==
    /\ seeks < MaxCalls
    /\ \E p \in SharpFrames : AddFrameCall(p)
    /\ seeks' = seeks + 1
    /\ UNCHANGED next

SharpGetFrame ==
    /\ seeks < MaxCalls
    /\ \E k \in SharpKeys : GetFrameCall(k)
    /\ seeks' = seeks + 1
    /\ UNCHANGED next

\* sharpenFrame(frame) on a descriptor the caller holds.
SharpenFrameCall ==
    /\ seeks < MaxCalls
    /\ \E p \in Held :
           /\ payload' = sharpenFrame(payload, p)
           /\ job' = [op |-> "sharpenFrame", frame |-> p]
           /\ log' = Append(log, [op |-> "sharpenFrame", frame |-> p,
                                  key |-> KeyOf(p)])
    /\ prev' = frameList
    /\ serial' = frameList
    /\ seeks' = seeks + 1
    /\ UNCHANGED <<frameList, ret, next, lock, pc, targ, tcalls, fmt, fault>>

NextSharp == SharpAddFrame \/ SharpGetFrame \/ SharpenFrameCall

SpecSharp == Init /\ [][NextSharp]_vars

(***************************************************************************)
(* generateInterpolatedFrame(frameA, frameB, pctAtoB, roi, blend): the     *)
(* source gives the declaration only; its return type is one               *)
(* const std::shared_ptr<FrameInfo>.  The body follows the design          *)
(* document, section 4.3.  pctAtoB is q / 2^PctBits.                       *)
(***************************************************************************)
\* Binary digits of the fractions pctAtoB takes.
PctBits == 2

\* q for pctAtoB = 1.
PctOne == Pow2(PctBits)

\* Fractions requested: [0, 1] and one step outside at either end.
Pcts == (0 - 1)..(PctOne + 1)

Rois == {"subject", "full"}

\* Frames passed as frameA and frameB, and frames the caller caches.
InterpA == {NullPtr, 1, 2}

InterpB == {NullPtr, 2, 3, NumKeys + 1}

InterpCached == {1, 2, 3}

\* width, height, linesize as the decoder set them: the frames decoded a
\* second time were decoded at half size.
Geometry ==
    [p \in FramePtrs |-> IF p <= NumKeys THEN <<1920, 1080, 7680>>
                         ELSE <<960, 540, 3840>>]

\* Mutant of InterpFrameNum: the number is converted to int, as the
\* constructor's parameter would.
InterpFrameNumTruncated(frameA, frameB, q) ==
    LET n == FrameNumOf(frameA) * PctOne
                 + q * (FrameNumOf(frameB) - FrameNumOf(frameA))
    IN  IntToFloat(n \div PctOne)

\* frameA->frameNum + pctAtoB * (frameB->frameNum - frameA->frameNum)
InterpFrameNum(frameA, frameB, q) ==
    LET n == FrameNumOf(frameA) * PctOne
                 + q * (FrameNumOf(frameB) - FrameNumOf(frameA))
    IN  [kind |-> "fin", neg |-> n < 0, m |-> IF n < 0 THEN 0 - n ELSE n,
         k |-> PctBits]

\* The descriptor of a synthesized frame: constructed from frameA's file,
\* then given the fractional number, the key recomputed from it and
\* frameA's geometry.
SynthFrame(frameA, frameB, q) ==
    LET num  == InterpFrameNum(frameA, frameB, q)
        made == FrameInfo(FloatToInt(num), Heap[frameA].file)
    IN  [frameNum |-> num,
         file     |-> made.file,
         key      |-> formatKey(made.file, num, FALSE),
         geometry |-> Geometry[frameA]]

\* Mutant of BlendedData: the end points are blended like any other.
BlendedDataNoEdge(buffers, frameA, frameB, q, roi) ==
    <<"blend", buffers[frameA], buffers[frameB], q, roi>>

\* Pixels of the blended frame: frameA's at 0, frameB's at 1, in between
\* the motion-compensated cross-dissolve with weights (1 - pct, pct).
BlendedData(buffers, frameA, frameB, q, roi) ==
    IF q = 0 THEN buffers[frameA]
    ELSE IF q = PctOne THEN buffers[frameB]
    ELSE <<"blend", buffers[frameA], buffers[frameB], q, roi>>

\* Pixels of the shift-only frame: frameA's displaced by motion * pct; as
\* the only result (blend = false) it is frameB's content at 1.
ShiftedData(buffers, frameA, frameB, q, roi, blend) ==
    IF q = 0 THEN buffers[frameA]
    ELSE IF q = PctOne /\ ~blend THEN buffers[frameB]
    ELSE <<"shift", buffers[frameA], q, roi>>

\* Mutant of Rejected: the range of pctAtoB is not checked.
RejectedNoRange(frameA, frameB, q) ==
    \/ frameA = NullPtr
    \/ frameB = NullPtr
    \/ Geometry[frameA] /= Geometry[frameB]

\* The request violates a precondition.
Rejected(frameA, frameB, q) ==
    \/ frameA = NullPtr
    \/ frameB = NullPtr
    \/ Geometry[frameA] /= Geometry[frameB]
    \/ q \notin 0..PctOne

\* The call.  result is the InterpResult the procedure produces; ret is
\* what the declared return type carries, the interpolated frame (blended
\* if blend, shifted otherwise).  shareA: at pctAtoB = 0 the implementation
\* hands back frameA itself instead of a copy.
generateInterpolatedFrame(buffers, frameA, frameB, q, roi, blend, shareA) ==
    IF Rejected(frameA, frameB, q)
    THEN [op |-> "interp", a |-> frameA, b |-> frameB, q |-> q, roi |-> roi,
          blend |-> blend, status |-> "rejected",
          frames |-> <<>>, data |-> <<>>,
          result |-> [blendedFrame |-> NullPtr, shiftedFrame |-> NullPtr],
          ret |-> NullPtr]
    ELSE LET synth == SynthFrame(frameA, frameB, q)
             same == q = 0 /\ shareA
             pair ==
                 [blendedFrame |-> IF ~blend THEN NullPtr
                                   ELSE IF same THEN frameA
                                   ELSE NumFrames + 1,
                  shiftedFrame |-> IF same /\ ~blend THEN frameA
                                   ELSE NumFrames + 2]
         IN  [op |-> "interp", a |-> frameA, b |-> frameB, q |-> q,
              roi |-> roi, blend |-> blend, status |-> "ok",
              frames |-> <<synth, synth>>,
              data |-> <<BlendedData(buffers, frameA, frameB, q, roi),
                         ShiftedData(buffers, frameA, frameB, q, roi, blend)>>,
              result |-> pair,
              ret |-> IF blend THEN pair.blendedFrame ELSE pair.shiftedFrame]

\* The caller caches a decoded frame.
InterpAddFrame ==
    /\ seeks < MaxCalls
    /\ \E p \in InterpCached : AddFrameCall(p)
    /\ seeks' = seeks + 1
    /\ UNCHANGED next

\* One interpolation request.  The function is given neither the cache nor
\* a way to reach it, and the procedure writes none of the buffers.
Interpolate ==
    /\ job.op = "none"
    /\ \E a \in InterpA, b \in InterpB, q \in Pcts, roi \in Rois,
          blend \in BOOLEAN, shareA \in BOOLEAN :
           job' = generateInterpolatedFrame(payload, a, b, q, roi, blend,
                                            shareA)
    /\ UNCHANGED <<cacheVars, fmt, fault, payload>>

\* The caller inserts the frame the request returned.
AddResult ==
    /\ seeks < MaxCalls
    /\ job.op = "interp"
    /\ job.ret /= NullPtr
    /\ AddFrameCall(job.ret)
    /\ seeks' = seeks + 1
    /\ UNCHANGED next

NextInterp == InterpAddFrame \/ Interpolate \/ AddResult

SpecInterp == Init /\ [][NextInterp]_vars

(***************************************************************************)
(* Observations used by the properties.                                    *)
(***************************************************************************)
Keys(list) == {KeyOf(list[i]) : i \in 1..Len(list)}

Entries(list) == {list[i] : i \in 1..Len(list)}

\* The list without the entries whose key is k.
Without(list, k) == SelectSeq(list, LAMBDA p : KeyOf(p) /= k)

\* The step just taken completed an addFrame / a getFrame call.
AddStep == Len(log') = Len(log) + 1 /\ log'[Len(log')].op = "addFrame"

LookupStep == Len(log') = Len(log) + 1 /\ log'[Len(log')].op = "getFrame"

LastCall == IF log = <<>> THEN NoCall ELSE log[Len(log)]

\* Position in the log of the most recent addFrame of descriptor p (0: none).
LastAddIdx(calls, p) ==
    LET hits == {i \in 1..Len(calls) :
                     calls[i].op = "addFrame" /\ calls[i].frame = p}
    IN  IF hits = {} THEN 0 ELSE CHOOSE i \in hits : \A j \in hits : j <= i

\* Positions in the log of the most recent addFrame of each key inserted.
LastAdds ==
    {i \in 1..Len(log) :
        /\ log[i].op = "addFrame"
        /\ \A j \in (i + 1)..Len(log) :
               ~(log[j].op = "addFrame" /\ log[j].key = log[i].key)}

\* The reference list of keys: the distinct keys of the addFrame calls of
\* the log, ordered by their most recent addFrame, newest first, truncated
\* to maxSize.
RefOrder ==
    LET n == Len(log)
        la == LastAdds
        newestFirst == SelectSeq([i \in 1..n |-> n + 1 - i],
                                 LAMBDA i : i \in la)
        kept == SubSeq(newestFirst, 1,
                       IF Len(newestFirst) < maxSize THEN Len(newestFirst)
                       ELSE maxSize)
    IN  [i \in 1..Len(kept) |-> log[kept[i]].key]

\* Fields and pixels of a decoded or synthesized frame.
FileOf(p) ==
    IF p <= NumFrames THEN Heap[p].file ELSE job.frames[p - NumFrames].file

NumOf(p) ==
    IF p <= NumFrames THEN Heap[p].frameNum
    ELSE job.frames[p - NumFrames].frameNum

GeometryOf(p) ==
    IF p <= NumFrames THEN Geometry[p]
    ELSE job.frames[p - NumFrames].geometry

DataOf(p) == IF p <= NumFrames THEN payload[p] ELSE job.data[p - NumFrames]

\* Two finite floats are the same number.
SameFloat(x, y) ==
    x.kind = y.kind /\ x.neg = y.neg /\ x.m * Pow2(y.k) = y.m * Pow2(x.k)

\* An interpolation request has been served.
InterpDone == job.op = "interp" /\ job.status = "ok"

\* The last step inserted the frame the interpolation returned.
AddedResult ==
    InterpDone /\ AddStep /\ log'[Len(log')].frame = job.ret

\* The synthesized frame has frameA's geometry and file, the interpolated
\* number (halfway for pctAtoB = 1/2) and the key formatted from it.
SynthFields ==
    /\ GeometryOf(job.ret) = Geometry[job.a]
    /\ FileOf(job.ret) = Heap[job.a].file
    /\ SameFloat(NumOf(job.ret), InterpFrameNum(job.a, job.b, job.q))
    /\ 2 * job.q = PctOne =>
           2 * NumOf(job.ret).m
               = (FrameNumOf(job.a) + FrameNumOf(job.b))
                     * Pow2(NumOf(job.ret).k)
    /\ KeyOf(job.ret) = formatKey(FileOf(job.ret), NumOf(job.ret), FALSE)

\* The step removed neither frameA's nor frameB's entry.
KeepsInputs ==
    \A e \in {job.a, job.b} :
        e \in Entries(frameList) => e \in Entries(frameList')

\* Distinct keys inserted so far.
AddedKeys == {log[i].key : i \in {j \in 1..Len(log) : log[j].op = "addFrame"}}

(***************************************************************************)
(* C1: after any sequence of addFrame and getFrame calls from the empty    *)
(* cache, the cache holds at most maxSize (32) entries.                    *)
(***************************************************************************)
CapacityInv == Len(frameList) <= maxSize

\* The cache is full and more than maxSize distinct keys have been inserted.
CapacityWitness ==
    Len(frameList) = maxSize /\ Cardinality(AddedKeys) > maxSize

(***************************************************************************)
(* C2: no two entries of the cache have the same key.                      *)
(***************************************************************************)
UniqueKeyInv ==
    \A i, j \in 1..Len(frameList) :
        KeyOf(frameList[i]) = KeyOf(frameList[j]) => i = j

\* A second descriptor with a key the cache already held has been inserted,
\* away from the front.
UniqueKeyWitness ==
    /\ LastCall.op = "addFrame"
    /\ LastCall.key \in Keys(prev)
    /\ LastCall.frame \notin Entries(prev)
    /\ FindIf(prev, LastCall.key) > 1

(***************************************************************************)
(* C3: addFrame of a frame whose key is already cached (anywhere, also in  *)
(* a full cache) keeps the size and the key set, puts the inserted frame   *)
(* at the front and keeps the order of all other entries.                  *)
(***************************************************************************)
ReinsertRefreshes ==
    [][ (AddStep /\ log'[Len(log')].key \in Keys(frameList)) =>
          LET c == log'[Len(log')]
          IN  /\ Len(frameList') = Len(frameList)
              /\ Keys(frameList') = Keys(frameList)
              /\ frameList'[1] = c.frame
              /\ Tail(frameList') = Without(frameList, c.key) ]_vars

\* A key held in the middle of a full cache has just been inserted again.
ReinsertWitness ==
    /\ LastCall.op = "addFrame"
    /\ Len(prev) = maxSize
    /\ FindIf(prev, LastCall.key) \in 2..(maxSize - 1)
    /\ frameList[1] = LastCall.frame

(***************************************************************************)
(* C4: addFrame of a frame whose key is not cached removes exactly the     *)
(* back entry when the cache holds maxSize entries and removes nothing     *)
(* (size + 1) otherwise; the new frame is at the front and the remaining   *)
(* entries keep their order.                                               *)
(***************************************************************************)
InsertNewEvictsBack ==
    [][ (AddStep /\ log'[Len(log')].key \notin Keys(frameList)) =>
          LET c == log'[Len(log')]
          IN  IF Len(frameList) = maxSize
              THEN /\ frameList' = <<c.frame>> \o PopBack(frameList)
                   /\ Len(frameList') = maxSize
              ELSE /\ frameList' = <<c.frame>> \o frameList
                   /\ Len(frameList') = Len(frameList) + 1 ]_vars

\* A new key has just been inserted into a full cache by a seek.
InsertNewWitness ==
    /\ LastCall.op = "addFrame"
    /\ seeks > 0
    /\ Len(prev) = maxSize
    /\ LastCall.key \notin Keys(prev)
    /\ prev[maxSize] \notin Entries(frameList)

(***************************************************************************)
(* C5: whenever an entry is evicted it is the one whose most recent        *)
(* addFrame is the oldest among the entries present; getFrame calls on it  *)
(* do not delay or prevent the eviction.                                   *)
(***************************************************************************)
EvictsLeastRecentlyInserted ==
    [][ AddStep =>
          \A p \in Entries(frameList) :
              KeyOf(p) \notin Keys(frameList') =>
                  \A q \in Entries(frameList) :
                      LastAddIdx(log, p) <= LastAddIdx(log, q) ]_vars

\* The entry just evicted was returned by the getFrame call right before.
EvictsLookedUpWitness ==
    /\ Len(log) >= 2
    /\ LastCall.op = "addFrame"
    /\ log[Len(log) - 1].op = "getFrame"
    /\ Len(prev) = maxSize
    /\ log[Len(log) - 1].key = KeyOf(prev[maxSize])
    /\ ret = prev[maxSize]
    /\ ret \notin Entries(frameList)

(***************************************************************************)
(* C6: getFrame(key) leaves the sequence of entries exactly as it was,     *)
(* whether the key is found or not.                                        *)
(***************************************************************************)
GetFrameReadOnly == [][ LookupStep => frameList' = frameList ]_vars

\* A getFrame has just found an entry that is not at the front.
GetFrameHitWitness ==
    /\ LastCall.op = "getFrame"
    /\ ret /= NullPtr
    /\ FindIf(frameList, LastCall.key) > 1
    /\ frameList = prev

(***************************************************************************)
(* C7: getFrame(key) returns the entry with that key exactly when one is   *)
(* cached and nullptr otherwise; a miss is an ordinary result that leaves  *)
(* the cache as it was.                                                    *)
(***************************************************************************)
GetFrameResult ==
    [][ LookupStep =>
          LET k == log'[Len(log')].key
          IN  IF k \in Keys(frameList)
              THEN ret' \in Entries(frameList) /\ KeyOf(ret') = k
              ELSE ret' = NullPtr /\ frameList' = frameList ]_vars

\* A getFrame has just missed on a full cache, for a key that was inserted
\* earlier and has been evicted since.
GetFrameMissWitness ==
    /\ LastCall.op = "getFrame"
    /\ ret = NullPtr
    /\ Len(frameList) = maxSize
    /\ LastCall.key \in AddedKeys
    /\ LastCall.key \notin Keys(frameList)

(***************************************************************************)
(* C8: when every addFrame and getFrame call runs under one mutex, every   *)
(* reachable state of every interleaving holds at most maxSize entries and *)
(* at most one entry per key, and whenever no call is in progress the      *)
(* cache equals the calls executed sequentially in lock-acquisition order. *)
(***************************************************************************)
LockedSerializable ==
    /\ Len(frameList) <= maxSize
    /\ Cardinality(Keys(frameList)) = Len(frameList)
    /\ lock = Free => frameList = serial

\* Both threads have completed a locked call on a full cache, one of them an
\* addFrame of a key that was not cached, and the mutex is free again.
LockedWitness ==
    /\ lock = Free
    /\ \A t \in Threads : tcalls[t] > 0 /\ pc[t] = "idle"
    /\ \E t \in Threads : targ[t].call.op = "addFrame"
    /\ Len(frameList) = maxSize
    /\ Cardinality(AddedKeys) > maxSize
    /\ frameList = serial

(***************************************************************************)
(* C9: without a lock, two addFrame calls whose search/remove steps both   *)
(* run before either push_front leave both frames at the front, two        *)
(* entries with the same key when the keys are equal, and two entries more *)
(* than the list the later search left - more than maxSize when that list  *)
(* held maxSize - 1 entries.                                               *)
(***************************************************************************)
RaceCorrupts ==
    \A t, u \in Threads :
        (/\ t /= u
         /\ pc[t] = "exit" /\ pc[u] = "exit"
         /\ targ[t].raced /\ targ[u].raced) =>
            /\ Len(frameList) >= 2
            /\ {frameList[1], frameList[2]}
                   = {targ[t].call.frame, targ[u].call.frame}
            /\ targ[t].call.key = targ[u].call.key =>
                   KeyOf(frameList[1]) = KeyOf(frameList[2])
            /\ Len(frameList) = targ[t].sawLen + 2
            /\ targ[t].sawLen = maxSize - 1 => Len(frameList) > maxSize

\* Two unlocked addFrame calls have returned and the cache holds two entries
\* with the same key and more than maxSize entries.
RaceWitness ==
    /\ \A t \in Threads : pc[t] = "exit" /\ targ[t].raced
    /\ Len(frameList) > maxSize
    /\ \E i, j \in 1..Len(frameList) :
           i /= j /\ KeyOf(frameList[i]) = KeyOf(frameList[j])

(***************************************************************************)
(* C10: for every file string f and frame number n, formatKey(f, n, false) *)
(* and formatKey(f, n, true) are different strings.                        *)
(***************************************************************************)
ZoomKeyDiffers == fmt.done => fmt.plain /= fmt.zoom

\* A file name that itself ends in "-z" and a negative fractional frame
\* number have been formatted both ways.
ZoomKeyWitness ==
    /\ fmt.done
    /\ fmt.file = <<"v", "-", "z">>
    /\ fmt.num.kind = "fin" /\ fmt.num.neg /\ fmt.num.m = 5 /\ fmt.num.k = 2
    /\ fmt.plain = <<"v", "-", "z", "-", "-", "1", ".", "2", "5", "0", "0",
                     "0", "0">>
    /\ fmt.zoom = fmt.plain \o <<"-", "z">>

MatchesReference ==
    /\ [i \in 1..Len(frameList) |-> KeyOf(frameList[i])] = RefOrder
    /\ LET la == LastAdds
           ks == Keys(frameList)
       IN  \A i \in la :
               log[i].key \in ks <=> Cardinality({j \in la : j > i}) < maxSize

\* After more than maxSize distinct keys, a getFrame and then an addFrame
\* of a key that had been inserted before and evicted since.
MatchesReferenceWitness ==
    /\ Len(log) > maxSize + 2
    /\ LastCall.op = "addFrame"
    /\ log[Len(log) - 1].op = "getFrame"
    /\ LastCall.key \notin Keys(prev)
    /\ \E i \in 1..(Len(log) - 1) :
           log[i].op = "addFrame" /\ log[i].key = LastCall.key
    /\ Len(frameList) = maxSize
    /\ KeyOf(frameList[1]) = LastCall.key

(***************************************************************************)
(* C19: a getFrame(frame.key) right after addFrame(frame) returns that     *)
(* very descriptor; a descriptor stored under the same key before is no    *)
(* longer in the cache, so it is returned for no key.                      *)
(***************************************************************************)
GetAfterAdd ==
    [][ (/\ LookupStep
         /\ LastCall.op = "addFrame"
         /\ log'[Len(log')].key = LastCall.key) =>
            /\ ret' = LastCall.frame
            /\ \A q \in Entries(prev) :
                   (KeyOf(q) = LastCall.key /\ q /= LastCall.frame) =>
                       q \notin Entries(frameList') ]_vars

\* After playback, a second descriptor of the cached frame maxSize has been
\* inserted and its key looked up: the new descriptor is returned and the
\* first one is gone.
GetAfterAddWitness ==
    /\ next = NumKeys + 1
    /\ Len(log) = NumKeys + 2
    /\ log[Len(log) - 1] = AddCall(NumFrames)
    /\ LastCall = GetCall(KeyOf(NumFrames))
    /\ ret = NumFrames
    /\ KeyOf(maxSize) = KeyOf(NumFrames)
    /\ maxSize \notin Entries(frameList)

(***************************************************************************)
(* C20: no sequence of addFrame and getFrame calls, addFrame of a null     *)
(* pointer included, leaves a null entry in the cache, and no call reads   *)
(* the key of a null pointer.                                              *)
(***************************************************************************)
NoNullEntry == NullPtr \notin Entries(frameList) /\ ~fault

(***************************************************************************)
(* C13: whenever sharpenFrame writes to a frame's payload, that payload is *)
(* reachable through no cache entry: a frame that was inserted, or         *)
(* obtained from getFrame, is copied before it is sharpened.               *)
(***************************************************************************)
SharpenNeverShared ==
    [][ \A p \in FramePtrs :
            payload'[p] /= payload[p] => p \notin Entries(frameList) ]_vars

(***************************************************************************)
(* C14: interpolation returns the pair {blendedFrame, shiftedFrame}: with  *)
(* blend = false the blended frame is absent and the shifted one present,  *)
(* with blend = true both are present.                                     *)
(***************************************************************************)
InterpReturnsPair ==
    InterpDone =>
        LET got == [blendedFrame |->
                        IF job.ret = job.result.blendedFrame THEN job.ret
                        ELSE NullPtr,
                    shiftedFrame |->
                        IF job.ret = job.result.shiftedFrame THEN job.ret
                        ELSE NullPtr]
        IN  IF job.blend
            THEN got.blendedFrame /= NullPtr /\ got.shiftedFrame /= NullPtr
            ELSE got.blendedFrame = NullPtr /\ got.shiftedFrame /= NullPtr

(***************************************************************************)
(* C15: an interpolation request with a null frame, with frames of         *)
(* different width, height or stride, or with pctAtoB outside [0, 1] is    *)
(* rejected without any computation and leaves the cache and every payload *)
(* as they were.                                                           *)
(***************************************************************************)
InterpRejects ==
    [][ (/\ job' /= job
         /\ job'.op = "interp"
         /\ \/ job'.a = NullPtr
            \/ job'.b = NullPtr
            \/ Geometry[job'.a] /= Geometry[job'.b]
            \/ job'.q < 0
            \/ job'.q > PctOne) =>
            /\ job'.status = "rejected"
            /\ job'.ret = NullPtr
            /\ job'.result.blendedFrame = NullPtr
            /\ job'.result.shiftedFrame = NullPtr
            /\ job'.frames = <<>>
            /\ job'.data = <<>>
            /\ frameList' = frameList
            /\ payload' = payload ]_vars

\* A request on two cached frames with pctAtoB above 1 has been rejected.
InterpRejectsWitness ==
    /\ job.op = "interp"
    /\ job.status = "rejected"
    /\ job.a = 1 /\ job.b = 2
    /\ job.q = PctOne + 1
    /\ {1, 2} \subseteq Entries(frameList)
    /\ payload = Decoded

DescKeyMatches ==
    fmt.made =>
        fmt.desc.key = formatKey(fmt.req.file, fmt.req.num, fmt.req.zoom)

====
